---------------------------- MODULE Spec2Model ----------------------------
(***************************************************************************)
(* Whiteface lift-status parser (liftie, lib/resorts/whiteface).           *)
(*                                                                         *)
(* Three revisions of the module are modelled, selected by `variant`:      *)
(*   "promise"   lib/resorts/whiteface/index.js : parse(dom) returns a map *)
(*               or a Promise; Puppeteer retrieval; parseLifts extraction  *)
(*   "callback"  unnamed/part_001 : parse(dom, fn); Puppeteer retrieval;   *)
(*               domutil.collect extraction                                *)
(*   "chromeUA"  unnamed/part_000 (lines 1-157) : parse(dom, fn); plain    *)
(*               fetch with a Chrome user agent; domutil.collect           *)
(*                                                                         *)
(* Strings are sequences of one-character strings, so that includes(),     *)
(* trim() and the icon regular expressions are computed, not assumed.      *)
(* Times are milliseconds, as Date.now() gives them, counted from 00:00    *)
(* UTC of the modelled day.                                                *)
(***************************************************************************)
EXTENDS Integers, Sequences, FiniteSets, Bags, TLC

(***************************************************************************)
(* Bounds of the model.                                                    *)
(***************************************************************************)
\* retrievals that may be in flight at the same time
MaxInFlight == 2
\* rows of a document under extraction
MaxRows == 2
\* Math.random() takes the values r / RandomSteps, r in 0 .. RandomSteps-1
RandomSteps == 2
\* the clock is read at these minutes after the start time: 07:30, 07:34,
\* 07:35, 07:45, 08:05 and 17:30 in New York
Instants == {0, 4, 5, 15, 35, 600}
\* 07:30 America/New_York (EST), as ms after 00:00 UTC
StartTime == (12 * 60 + 30) * 60000

(***************************************************************************)
(* Strings.                                                                *)
(***************************************************************************)
kw_title == <<"t", "i", "t", "l", "e">>
kw_lift_name == <<"l", "i", "f", "t", "-", "n", "a", "m", "e">>
kw_status == <<"s", "t", "a", "t", "u", "s">>
kw_lift_icon == <<"l", "i", "f", "t", "-", "i", "c", "o", "n">>
re_icon == <<"i", "c", "o", "n", "-">>
re_dot_svg == <<".", "s", "v", "g">>
re_svg == <<"s", "v", "g">>

cls_type == <<"l", "i", "f", "t", "-", "t", "y", "p", "e">>
cls_name == <<"l", "i", "f", "t", "-", "n", "a", "m", "e">>
cls_icon == <<"l", "i", "f", "t", "-", "i", "c", "o", "n">>
cls_time == <<"l", "i", "f", "t", "-", "t", "i", "m", "e">>
\* "col title", "col status": the new markup's "column first title" and
\* "column second status", shortened
cls_title == <<"c", "o", "l", " ", "t", "i", "t", "l", "e">>
cls_status == <<"c", "o", "l", " ", "s", "t", "a", "t", "u", "s">>

txt_Lookout == <<"L", "o", "o", "k", "o", "u", "t">>
txt_Bear == <<"B", "e", "a", "r">>
txt_Lookout_ws == <<" ", "L", "o", "o", "k", "o", "u", "t", " ">>
txt_Bear_ws == <<" ", "B", "e", "a", "r">>
txt_Gondola == <<"G", "o", "n", "d", "o", "l", "a">>
txt_time == <<"8", ":", "3", "0">>
txt_blank == <<" ">>

st_open == <<"o", "p", "e", "n">>
st_hold == <<"h", "o", "l", "d">>
st_closed == <<"c", "l", "o", "s", "e", "d">>

src_open == <<"/", "i", "/", "i", "c", "o", "n", "-", "o", "p", "e", "n", ".", "s", "v", "g">>
src_hold == <<"/", "i", "/", "i", "c", "o", "n", "-", "h", "o", "l", "d", ".", "s", "v", "g">>
src_closed == <<"/", "i", "/", "i", "c", "o", "n", "-", "c", "l", "o", "s", "e", "d", ".", "s", "v", "g">>
src_png == <<"/", "i", "/", "o", "p", "e", "n", ".", "p", "n", "g">>

\* String.prototype.includes: sub occurs in s
Includes(s, sub) ==
  \E i \in 1..(Len(s) - Len(sub) + 1) : SubSeq(s, i, i + Len(sub) - 1) = sub

\* sub occurs in s at position i
OccursAt(s, sub, i) ==
  /\ i >= 1
  /\ i + Len(sub) - 1 <= Len(s)
  /\ SubSeq(s, i, i + Len(sub) - 1) = sub

IsSpace(c) == c \in {" ", "\t", "\n"}

\* variation: nothing is trimmed
Trim_Nothing(s) == s

\* String.prototype.trim
Trim(s) ==
  LET keep == {i \in 1..Len(s) : ~IsSpace(s[i])}
  IN IF keep = {} THEN <<>>
     ELSE LET lo == CHOOSE i \in keep : \A j \in keep : i <= j
              hi == CHOOSE i \in keep : \A j \in keep : i >= j
          IN SubSeq(s, lo, hi)

\* "." of a regular expression matches every character but a line break
NoLineBreak(s) == \A i \in 1..Len(s) : s[i] # "\n"

\* the result of a failed match, of a missing field
NoMatch == [found |-> FALSE, group |-> <<>>]

(***************************************************************************)
(* src.match(/icon-(.+)\.svg/): the leftmost "icon-", then the longest     *)
(* non-empty group that ".svg" follows.                                    *)
(***************************************************************************)
MatchIcon(s) ==
  LET ends(i) == {j \in (i + 6)..Len(s) :
                    /\ OccursAt(s, re_dot_svg, j)
                    /\ NoLineBreak(SubSeq(s, i + 5, j - 1))}
      starts == {i \in 1..Len(s) : OccursAt(s, re_icon, i) /\ ends(i) # {}}
  IN IF starts = {} THEN NoMatch
     ELSE LET i == CHOOSE a \in starts : \A b \in starts : a <= b
              j == CHOOSE a \in ends(i) : \A b \in ends(i) : a >= b
          IN [found |-> TRUE, group |-> SubSeq(s, i + 5, j - 1)]

(***************************************************************************)
(* Documents.  A document is the sequence of its .lifts-row elements; a    *)
(* row is the sequence of its tag children; a child has its class          *)
(* attribute, its text (allText) and its own child elements, each with a   *)
(* tag and a src attribute (<<>> when it has none).                        *)
(***************************************************************************)
Img(src) == [tag |-> "img", src |-> src]
Cell(class, text, kids) == [class |-> class, text |-> text, kids |-> kids]

\* old markup: [0]=type, [1]=name, [2]=status icon, [3]=time
OldRow(name, src) ==
  << Cell(cls_type, txt_Gondola, <<>>), Cell(cls_name, name, <<>>),
     Cell(cls_icon, <<>>, <<Img(src)>>), Cell(cls_time, txt_time, <<>>) >>

\* new markup: [0]=name, [1]=status icon
NewRow(name, src) ==
  << Cell(cls_title, name, <<>>), Cell(cls_status, <<>>, <<Img(src)>>) >>

DocNone == <<>>
DocOld == << OldRow(txt_Lookout, src_open), OldRow(txt_Bear, src_hold) >>
DocNew == << NewRow(txt_Lookout_ws, src_open), NewRow(txt_Bear_ws, src_hold) >>
DocNewClosed == << NewRow(txt_Lookout, src_closed) >>
\* rows are there, no icon URL has the expected form
DocDrift == << NewRow(txt_Lookout, src_png), OldRow(txt_Bear, src_png) >>

EmptyMap == [n \in {} |-> <<>>]

\* the largest element of a non-empty set of numbers
Last(S) == CHOOSE k \in S : \A j \in S : j <= k

\* the match of the icon pattern on the src of select(child, 'img')[0]
iconOf(child) ==
  LET imgs == {i \in 1..Len(child.kids) : child.kids[i].tag = "img"}
  IN IF imgs = {} THEN NoMatch
     ELSE LET img == child.kids[CHOOSE i \in imgs : \A j \in imgs : i <= j]
          IN IF img.src = <<>> THEN NoMatch ELSE MatchIcon(img.src)

(***************************************************************************)
(* parseLifts, index.js lines 70-94: the loop over a row's tag children.   *)
(* Each child whose class includes "title" or "lift-name" assigns name,    *)
(* each child whose class includes "status" or "lift-icon" and whose icon  *)
(* matches assigns status; the last assignment stands.                     *)
(***************************************************************************)
sniffRow(children) ==
  LET titled == {k \in 1..Len(children) :
                   \/ Includes(children[k].class, kw_title)
                   \/ Includes(children[k].class, kw_lift_name)}
      matched == {k \in 1..Len(children) :
                    /\ \/ Includes(children[k].class, kw_status)
                       \/ Includes(children[k].class, kw_lift_icon)
                    /\ iconOf(children[k]).found}
  IN [name |-> IF titled = {} THEN <<>> ELSE Trim(children[Last(titled)].text),
      status |-> IF matched = {} THEN <<>> ELSE iconOf(children[Last(matched)]).group]

\* variation: the pass over the rows ends at the first row without a name or
\* without a status
parseLiftsRows_StopsAtBadRow(rows) ==
  LET f(k) == sniffRow(rows[k])
      bad == {k \in 1..Len(rows) : f(k).name = <<>> \/ f(k).status = <<>>}
      found == {k \in 1..Len(rows) : \A j \in bad : k < j}
  IN [n \in {f(k).name : k \in found} |->
        f(Last({k \in found : f(k).name = n})).status]

(***************************************************************************)
(* index.js lines 66-102: ls[name] = status for each row with a name and a *)
(* status, in document order, so a later row replaces an earlier one of    *)
(* the same name.                                                          *)
(***************************************************************************)
parseLiftsRows(rows) ==
  LET f(k) == sniffRow(rows[k])
      found == {k \in 1..Len(rows) : f(k).name # <<>> /\ f(k).status # <<>>}
  IN [n \in {f(k).name : k \in found} |->
        f(Last({k \in found : f(k).name = n})).status]

\* the documents of the model
Docs == {DocNone, DocOld, DocNew, DocNewClosed, DocDrift}

\* parseLifts is computed once for each document of the model
parseLiftsTable == [dom \in Docs |-> parseLiftsRows(dom)]

parseLifts(dom) == parseLiftsTable[dom]


(***************************************************************************)
(* domutil.collect(dom, '.lifts-row', parseConfig) of the callback         *)
(* revisions.  lib/tools/domutil.js is not among the sources; this is the  *)
(* rule-based extraction as the specification describes it: the name is    *)
(* the text of child 1, the status is attribute src of child 2/0 matched   *)
(* against /icon-(.+).svg$/, and a row with a missing field is omitted.    *)
(***************************************************************************)
\* src.match(/icon-(.+).svg$/): the "." before svg is any character, and
\* svg ends the string
MatchIconEnd(s) ==
  LET n == Len(s)
      starts == {i \in 1..n :
                   /\ OccursAt(s, re_icon, i)
                   /\ n - 4 >= i + 5
                   /\ OccursAt(s, re_svg, n - 2)
                   /\ NoLineBreak(SubSeq(s, i + 5, n - 3))}
  IN IF starts = {} THEN NoMatch
     ELSE LET i == CHOOSE a \in starts : \A b \in starts : a <= b
          IN [found |-> TRUE, group |-> SubSeq(s, i + 5, n - 4)]

\* parseConfig: name: '1', status: { child: '2/0', attribute: 'src', regex }
ruleRow(children) ==
  LET name == IF Len(children) >= 2 THEN children[2].text ELSE <<>>
      match == IF Len(children) >= 3 /\ Len(children[3].kids) >= 1
                 THEN MatchIconEnd(children[3].kids[1].src)
                 ELSE NoMatch
  IN [name |-> name, status |-> IF match.found THEN match.group ELSE <<>>]

\* ls[name] = status for each row with both fields, in document order
collectRows(rows) ==
  LET f(k) == ruleRow(rows[k])
      found == {k \in 1..Len(rows) : f(k).name # <<>> /\ f(k).status # <<>>}
  IN [n \in {f(k).name : k \in found} |->
        f(Last({k \in found : f(k).name = n})).status]

\* collect is computed once for each document of the model
collectTable == [dom \in Docs |-> collectRows(dom)]

collect(dom) == collectTable[dom]

(***************************************************************************)
(* Program constants.                                                      *)
(***************************************************************************)
ACTIVE_MIN_INTERVAL == 5 * 60 * 1000
ACTIVE_MAX_INTERVAL == 15 * 60 * 1000
INACTIVE_MIN_INTERVAL == 30 * 60 * 1000
INACTIVE_MAX_INTERVAL == 60 * 60 * 1000
ACTIVITY_THRESHOLD == 5 * 60 * 1000
\* OPEN_HOUR = 7.75 and CLOSE_HOUR = 17.5, in minutes of the day
OPEN_HOUR_x60 == 465
CLOSE_HOUR_x60 == 1050
\* part_000: 5-15 minute intervals, whole hours
MIN_FETCH_INTERVAL == 5 * 60 * 1000
MAX_FETCH_INTERVAL == 15 * 60 * 1000
OPEN_HOUR_UA == 8
CLOSE_HOUR_UA == 17
\* timeZone: 'America/New_York' in the ski season: UTC-5, in minutes
NY_UTC_OFFSET == 300

Variants == {"promise", "callback", "chromeUA"}

VARIABLES
  variant,            \* the revision of the module that is loaded
  now,                \* Date.now()
  lastFetchTime,      \* 0: no attempt recorded
  lastRequestTime,
  cachedStatus,
  nextFetchInterval,
  inflight,           \* retrievals started and not completed (a bag)
  last,               \* the last step taken and what it delivered to its caller
  lastFresh,          \* history: the map the latest successful retrieval delivered
  lifts,              \* the lifts of the document under extraction
  extracted           \* the maps extracted from the renderings of `lifts`

vars == <<variant, now, lastFetchTime, lastRequestTime, cachedStatus,
          nextFetchInterval, inflight, last, lastFresh, lifts, extracted>>

(***************************************************************************)
(* Scheduler.                                                              *)
(***************************************************************************)
\* Math.random() = r / RandomSteps
getRandomInterval(isActive, r) ==
  LET min == IF isActive THEN ACTIVE_MIN_INTERVAL ELSE INACTIVE_MIN_INTERVAL
      max == IF isActive THEN ACTIVE_MAX_INTERVAL ELSE INACTIVE_MAX_INTERVAL
  IN min + (r * (max - min)) \div RandomSteps

getRandomIntervalUA(r) ==
  MIN_FETCH_INTERVAL + (r * (MAX_FETCH_INTERVAL - MIN_FETCH_INTERVAL)) \div RandomSteps

\* minutes since midnight in New York at time t: getHours() * 60 + getMinutes()
nyMinutes(t) == ((t \div 60000) + 1440 - NY_UTC_OFFSET) % 1440

\* variation: the comparison with CLOSE_HOUR is left out
isWithinOperatingHours_NoClose == nyMinutes(now) >= OPEN_HOUR_x60

isWithinOperatingHours ==
  LET hour_x60 == nyMinutes(now)
  IN hour_x60 >= OPEN_HOUR_x60 /\ hour_x60 < CLOSE_HOUR_x60

isWithinOperatingHoursUA ==
  LET hour == nyMinutes(now) \div 60
  IN hour >= OPEN_HOUR_UA /\ hour < CLOSE_HOUR_UA

isUserActive == now - lastRequestTime < ACTIVITY_THRESHOLD

\* variation: the backoff test of lines 47-50 is left out
shouldFetch_NoBackoff ==
  IF lastFetchTime = 0 THEN TRUE
  ELSE IF ~(IF variant = "chromeUA" THEN isWithinOperatingHoursUA
                                    ELSE isWithinOperatingHours) THEN FALSE
  ELSE TRUE

\* variation: the first-fetch test of line 46 is left out
shouldFetch_NoBootstrap ==
  IF now - lastFetchTime < nextFetchInterval THEN FALSE
  ELSE IF ~(IF variant = "chromeUA" THEN isWithinOperatingHoursUA
                                    ELSE isWithinOperatingHours) THEN FALSE
  ELSE TRUE

\* variation: a single-flight guard
shouldFetch_SingleFlight ==
  /\ inflight = EmptyBag
  /\ \/ lastFetchTime = 0
     \/ /\ now - lastFetchTime >= nextFetchInterval
        /\ IF variant = "chromeUA" THEN isWithinOperatingHoursUA
                                   ELSE isWithinOperatingHours

shouldFetch ==
  IF lastFetchTime = 0 THEN TRUE
  ELSE IF now - lastFetchTime < nextFetchInterval THEN FALSE
  ELSE IF ~(IF variant = "chromeUA" THEN isWithinOperatingHoursUA
                                    ELSE isWithinOperatingHours) THEN FALSE
  ELSE TRUE

\* variation: a completion keeps the interval it found
redraw_Keeps(r) == nextFetchInterval

\* the interval drawn when an attempt completes
redraw(r) ==
  IF variant = "chromeUA" THEN getRandomIntervalUA(r)
  ELSE getRandomInterval(isUserActive, r)

\* the extraction the loaded revision applies
extract(dom) == IF variant = "promise" THEN parseLifts(dom) ELSE collect(dom)


(***************************************************************************)
(* Retriever.                                                              *)
(***************************************************************************)
\* html: null, markup that parses to dom, or markup on which parseDocument or
\* the extraction throws (broken)
Null == [isNull |-> TRUE, broken |-> FALSE, dom |-> <<>>]
Html(dom) == [isNull |-> FALSE, broken |-> FALSE, dom |-> dom]
Broken == [isNull |-> FALSE, broken |-> TRUE, dom |-> <<>>]

\* documents handed to parse(), and pages the remote site may serve
ProvidedDocs == {DocNone, DocOld, DocNew, DocDrift}
LivePages == {DocOld, DocNewClosed, DocDrift}
LiveHtml == {Html(p) : p \in LivePages} \cup {Broken}

\* the awaited calls of fetchWithPuppeteer, in order; "none": nothing fails
PuppeteerStages == <<"import", "launch", "newPage", "setViewport", "setUserAgent",
                     "goto", "waitForSelector", "content", "close">>
PuppeteerFaults == {PuppeteerStages[i] : i \in DOMAIN PuppeteerStages} \cup {"none"}

(***************************************************************************)
(* fetchWithPuppeteer: `fault` is the awaited call that throws, and        *)
(* closeThrows says whether browser.close() in the catch block throws.     *)
(* The result says how the async function settles, with what, whether a    *)
(* browser was launched, and how often close() was called and returned.    *)
(***************************************************************************)
\* variation: the catch block does not close the browser
fetchWithPuppeteer_NoCloseInCatch(fault, closeThrows, html) ==
  IF fault = "none"
    THEN [settled |-> "resolved", html |-> html, launched |-> TRUE,
          closeCalls |-> 1, closed |-> TRUE]
    ELSE [settled |-> "resolved", html |-> Null,
          launched |-> fault \notin {"import", "launch"},
          closeCalls |-> IF fault = "close" THEN 1 ELSE 0, closed |-> FALSE]

fetchWithPuppeteer(fault, closeThrows, html) ==
  LET launched == fault \notin {"import", "launch"}
  IN IF fault = "none"
       THEN [settled |-> "resolved", html |-> html, launched |-> TRUE,
             closeCalls |-> 1, closed |-> TRUE]
     ELSE IF ~launched
       THEN [settled |-> "resolved", html |-> Null, launched |-> FALSE,
             closeCalls |-> 0, closed |-> FALSE]
     ELSE LET calls == IF fault = "close" THEN 2 ELSE 1
          IN IF closeThrows
               THEN [settled |-> "rejected", html |-> Null, launched |-> TRUE,
                     closeCalls |-> calls, closed |-> FALSE]
               ELSE [settled |-> "resolved", html |-> Null, launched |-> TRUE,
                     closeCalls |-> calls, closed |-> TRUE]

PuppeteerOutcomes ==
  {fetchWithPuppeteer(f, c, h) : f \in PuppeteerFaults, c \in BOOLEAN, h \in LiveHtml}

\* the browser of a settled fetchWithPuppeteer(): never launched ("none"),
\* close() returned ("closed"), close() was called and threw ("closeFailed"),
\* launched and close() never called ("leaked")
browserOf(o) ==
  IF ~o.launched THEN "none"
  ELSE IF o.closed THEN "closed"
  ELSE IF o.closeCalls > 0 THEN "closeFailed"
  ELSE "leaked"

\* what the handlers chained on fetchWithPuppeteer() see of its outcome, and
\* the browser it leaves
Settlement(settled, status, textFails, html, browser) ==
  [settled |-> settled, status |-> status, textFails |-> textFails, html |-> html,
   browser |-> browser]

PuppeteerSettlements ==
  {Settlement(o.settled, 0, FALSE, o.html, browserOf(o)) : o \in PuppeteerOutcomes}

\* fetch(whitefaceUrl, ...) of part_000: a network error rejects; otherwise a
\* response with a status, whose text() gives the body or rejects.  The body
\* of a non-2xx response is not read.
FetchSettlements ==
  {Settlement("rejected", 0, FALSE, Null, "none"),
   Settlement("resolved", 404, FALSE, Null, "none"),
   Settlement("resolved", 200, TRUE, Null, "none")}
  \cup {Settlement("resolved", 200, FALSE, h, "none") : h \in LiveHtml \cup {Html(DocNone)}}

(***************************************************************************)
(* The completion handlers.  A handler's result h gives the module state   *)
(* it leaves (lft: lastFetchTime, nfi: nextFetchInterval, cache:           *)
(* cachedStatus), the path taken, the values passed to fn (calls) with     *)
(* their error slots (errs), the value the promise chain carries (ret) and *)
(* whether the handler threw (rejected).                                   *)
(***************************************************************************)
Handled(lft, nfi, cache, path, calls, errs, ret, rejected) ==
  [lft |-> lft, nfi |-> nfi, cache |-> cache, path |-> path, calls |-> calls,
   errs |-> errs, ret |-> ret, rejected |-> rejected]

\* the state before any handler ran
Unhandled ==
  Handled(lastFetchTime, nextFetchInterval, cachedStatus, "none", <<>>, <<>>, <<>>, TRUE)

\* the three ways a first handler ends: the cache is delivered, the handler
\* throws before it delivers anything, the fresh extraction is stored and
\* delivered.  byFn: the value goes to fn (which may throw), not to the promise.
\* (noData_ClearsCache is the variation that empties the cache on this path.)
noData_ClearsCache(r, byFn, fnThrows) ==
  Handled(now, redraw(r), EmptyMap, "nodata",
          IF byFn THEN <<cachedStatus>> ELSE <<>>, IF byFn THEN <<"null">> ELSE <<>>,
          IF byFn THEN <<>> ELSE <<cachedStatus>>, fnThrows)

noData(r, byFn, fnThrows) ==
  Handled(now, redraw(r), cachedStatus, "nodata",
          IF byFn THEN <<cachedStatus>> ELSE <<>>, IF byFn THEN <<"null">> ELSE <<>>,
          IF byFn THEN <<>> ELSE <<cachedStatus>>, fnThrows)

threw(r) ==
  Handled(now, redraw(r), cachedStatus, "exception", <<>>, <<>>, <<>>, TRUE)

\* variation: the extracted map is delivered and not stored
fresh_CachesNothing(liftStatus, r, byFn, fnThrows) ==
  Handled(now, redraw(r), cachedStatus, "fresh",
          IF byFn THEN <<liftStatus>> ELSE <<>>, IF byFn THEN <<"null">> ELSE <<>>,
          IF byFn THEN <<>> ELSE <<liftStatus>>, fnThrows)

\* variation: the extracted map is merged into the cache
fresh_Merges(liftStatus, r, byFn, fnThrows) ==
  Handled(now, redraw(r), liftStatus @@ cachedStatus, "fresh",
          IF byFn THEN <<liftStatus>> ELSE <<>>, IF byFn THEN <<"null">> ELSE <<>>,
          IF byFn THEN <<>> ELSE <<liftStatus>>, fnThrows)

fresh(liftStatus, r, byFn, fnThrows) ==
  Handled(now, redraw(r), liftStatus, "fresh",
          IF byFn THEN <<liftStatus>> ELSE <<>>, IF byFn THEN <<"null">> ELSE <<>>,
          IF byFn THEN <<>> ELSE <<liftStatus>>, fnThrows)

\* index.js, .then(html => ...), lines 167-182
thenPromise(html, r) ==
  IF html.isNull THEN noData(r, FALSE, FALSE)
  ELSE IF html.broken THEN threw(r)
  ELSE fresh(parseLifts(html.dom), r, FALSE, FALSE)

\* variations of .catch: it resolves with an empty map; it throws err again;
\* it does not set lastFetchTime
catchPromise_NoRecord(h, r) ==
  Handled(h.lft, redraw(r), h.cache, "exception", h.calls, h.errs, <<h.cache>>, FALSE)

catchPromise_ReturnsEmpty(h, r) ==
  Handled(now, redraw(r), h.cache, "exception", h.calls, h.errs, <<EmptyMap>>, FALSE)

catchPromise_Rethrows(h, r) ==
  Handled(now, redraw(r), h.cache, "exception", h.calls, h.errs, <<>>, TRUE)

\* index.js, .catch(err => ...), lines 183-188
catchPromise(h, r) ==
  Handled(now, redraw(r), h.cache, "exception", h.calls, h.errs, <<h.cache>>, FALSE)

\* part_001, .then(html => ...), lines 160-175
thenCallback(html, fnThrows, r) ==
  IF html.isNull THEN noData(r, TRUE, fnThrows)
  ELSE IF html.broken THEN threw(r)
  ELSE fresh(collect(html.dom), r, TRUE, fnThrows)

\* part_001, .catch(err => ...), lines 176-181
catchCallback(h, r) ==
  Handled(now, redraw(r), h.cache, IF h.path = "none" THEN "exception" ELSE h.path,
          Append(h.calls, h.cache), Append(h.errs, "null"), <<>>, FALSE)

\* part_000, .then(async res => ...), lines 129-148
thenChromeUA(res, fnThrows, r) ==
  IF res.status < 200 \/ res.status >= 300 THEN noData(r, TRUE, fnThrows)
  ELSE IF res.textFails \/ res.html.broken THEN threw(r)
  ELSE fresh(collect(res.html.dom), r, TRUE, fnThrows)

\* part_000, .catch(err => ...), lines 149-156
catchChromeUA(h, r) ==
  Handled(now, redraw(r), h.cache, IF h.path = "none" THEN "exception" ELSE h.path,
          Append(h.calls, h.cache), Append(h.errs, "null"), <<>>, FALSE)

\* .then(onFulfilled) on a promise settled as o; fnThrows: fn throws when this
\* handler calls it, which hands control to .catch
thenPart(o, fnThrows, r1) ==
  IF o.settled = "rejected" THEN Unhandled
  ELSE CASE variant = "promise" -> thenPromise(o.html, r1)
         [] variant = "callback" -> thenCallback(o.html, fnThrows, r1)
         [] OTHER -> thenChromeUA(o, fnThrows, r1)

\* .catch(onRejected) after a first handler that ended as `first`
catchPart(first, r2) ==
  IF ~first.rejected THEN first
  ELSE CASE variant = "promise" -> catchPromise(first, r2)
         [] variant = "callback" -> catchCallback(first, r2)
         [] OTHER -> catchChromeUA(first, r2)

\* promise.then(onFulfilled).catch(onRejected) on a promise settled as o
chain(o, fnThrows, r1, r2) == catchPart(thenPart(o, fnThrows, r1), r2)

\* The inputs the handlers read on a settlement: whether fn throws, where the
\* first handler calls fn; the first draw, where no second draw replaces it;
\* the second draw, where .catch runs.
FnThrowsRead(o) ==
  IF variant # "promise" /\ thenPart(o, FALSE, 0).calls # <<>> THEN BOOLEAN ELSE {FALSE}

Draw1Read(o, fnThrows) ==
  IF thenPart(o, fnThrows, 0).rejected THEN {0} ELSE 0..(RandomSteps - 1)

Draw2Read(o, fnThrows) ==
  IF thenPart(o, fnThrows, 0).rejected THEN 0..(RandomSteps - 1) ELSE {0}

(***************************************************************************)
(* State machine.                                                          *)
(***************************************************************************)
Step(op, path, how, out, errs, thrown) ==
  [op |-> op, path |-> path, how |-> how, out |-> out, errs |-> errs, thrown |-> thrown,
   browser |-> "none"]

\* the extraction variables before an extraction ran
NotExtracted == [done |-> FALSE]

\* the times at which the clock is read
Clock == {StartTime + m * 60000 : m \in Instants}

\* variation: two rows are not enough
hasLifts_MoreThanTwo(dom) == Len(dom) > 2

\* lifts.length > 0, with lifts = select(dom, '.lifts-row')
hasLifts(dom) == Len(dom) > 0

Init ==
  /\ variant \in Variants
  /\ now = StartTime
  /\ lastFetchTime = 0
  /\ lastRequestTime = 0
  /\ cachedStatus = EmptyMap
  /\ \E r \in 0..(RandomSteps - 1) :
       nextFetchInterval = IF variant = "chromeUA" THEN getRandomIntervalUA(r)
                           ELSE getRandomInterval(FALSE, r)
  /\ inflight = EmptyBag
  /\ last = Step("init", "none", "none", <<>>, <<>>, FALSE)
  /\ lastFresh = EmptyMap
  /\ lifts = <<>>
  /\ extracted = NotExtracted

\* time passes
Tick(t) ==
  /\ t > now
  /\ now' = t
  /\ last' = Step("tick", "none", "none", <<>>, <<>>, FALSE)
  /\ UNCHANGED <<variant, lastFetchTime, lastRequestTime, cachedStatus,
                 nextFetchInterval, inflight, lastFresh, lifts, extracted>>

\* variation: the query is not recorded
requestTime_Kept == lastRequestTime

\* lastRequestTime = Date.now(), the first statement of parse(); part_000 has
\* no lastRequestTime
requestTime == IF variant = "chromeUA" THEN lastRequestTime ELSE now

\* what a retrieval remembers of the query that started it: the cache at that
\* time, and whether the query came less than ACTIVITY_THRESHOLD after the
\* query before it
Attempt == [startCache |-> cachedStatus,
            gapActive |-> lastRequestTime # 0 /\ now - lastRequestTime < ACTIVITY_THRESHOLD]

(***************************************************************************)
(* parse(dom) of index.js, parse(dom, fn) of the callback revisions: fn    *)
(* says whether a callback is passed.                                      *)
(***************************************************************************)
parse(dom, fn) ==
  /\ variant = "promise" => ~fn
  /\ lastRequestTime' = requestTime
  /\ IF hasLifts(dom)
       THEN /\ last' = Step("parse", "rows", IF fn THEN "callback" ELSE "return",
                            <<extract(dom)>>, IF fn THEN <<"null">> ELSE <<>>, FALSE)
            /\ UNCHANGED inflight
     ELSE IF variant # "promise" /\ ~fn
       THEN /\ last' = Step("parse", "nocallback", "return", <<cachedStatus>>, <<>>, FALSE)
            /\ UNCHANGED inflight
     ELSE IF ~shouldFetch
       THEN /\ last' = Step("parse", "rejected", IF fn THEN "callback" ELSE "return",
                            <<cachedStatus>>, IF fn THEN <<"null">> ELSE <<>>, FALSE)
            /\ UNCHANGED inflight
     ELSE /\ BagCardinality(inflight) < MaxInFlight
          /\ inflight' = inflight (+) SetToBag({Attempt})
          /\ last' = Step("parse", "started", IF fn THEN "none" ELSE "promise",
                          <<>>, <<>>, FALSE)
  /\ UNCHANGED <<variant, now, lastFetchTime, cachedStatus, nextFetchInterval,
                 lastFresh, lifts, extracted>>

\* variation: the retrieval stays pending, its handlers never run
Deliver_Pending(a, h, browser) ==
  /\ last' = Step("pending", "none", "none", <<>>, <<>>, FALSE)
  /\ UNCHANGED <<variant, now, lastFetchTime, lastRequestTime, cachedStatus,
                 nextFetchInterval, inflight, lastFresh, lifts, extracted>>

\* the values a completion delivered: what the promise resolved with, what
\* fn was called with
delivered(h) == IF variant = "promise" THEN h.ret ELSE h.calls

\* the handlers ended as h after a retrieval that left `browser`: the module
\* state they leave, and what the caller got
Deliver(a, h, browser) ==
  /\ inflight' = inflight (-) SetToBag({a})
  /\ lastFetchTime' = h.lft
  /\ nextFetchInterval' = h.nfi
  /\ cachedStatus' = h.cache
  /\ last' = [Step("complete", h.path,
                    IF variant # "promise" THEN "callback"
                    ELSE IF h.rejected THEN "reject" ELSE "resolve",
                    delivered(h), h.errs, h.rejected)
               EXCEPT !.browser = browser]
  /\ lastFresh' = IF h.path = "fresh" THEN delivered(h)[1] ELSE lastFresh
  /\ UNCHANGED <<variant, now, lastRequestTime, lifts, extracted>>

\* a retrieval settles as o and the handlers chained on it run
Settle(a, o, fnThrows, r1, r2) == Deliver(a, chain(o, fnThrows, r1, r2), o.browser)

\* fetchWithPuppeteer() completes: index.js lines 166-188, part_001 lines 159-181
Complete(a, o, fnThrows, r1, r2) ==
  /\ variant \in {"promise", "callback"}
  /\ Settle(a, o, fnThrows, r1, r2)

\* fetch() completes: part_000 lines 119-157
CompleteChromeUA(a, o, fnThrows, r1, r2) ==
  /\ variant = "chromeUA"
  /\ Settle(a, o, fnThrows, r1, r2)

Next ==
  \/ \E t \in Clock : Tick(t)
  \/ \E dom \in ProvidedDocs, fn \in BOOLEAN : parse(dom, fn)
  \/ \E a \in BagToSet(inflight), o \in PuppeteerSettlements :
       \E fnThrows \in FnThrowsRead(o) :
         \E r1 \in Draw1Read(o, fnThrows), r2 \in Draw2Read(o, fnThrows) :
           Complete(a, o, fnThrows, r1, r2)
  \/ \E a \in BagToSet(inflight), o \in FetchSettlements :
       \E fnThrows \in FnThrowsRead(o) :
         \E r1 \in Draw1Read(o, fnThrows), r2 \in Draw2Read(o, fnThrows) :
           CompleteChromeUA(a, o, fnThrows, r1, r2)

Spec == Init /\ [][Next]_vars

(***************************************************************************)
(* The extraction on its own.  A lift is a name text and the src of its    *)
(* status image (<<>>: the image has no src); a list of lifts is rendered  *)
(* in the old and in the new markup, and the extractions are applied to    *)
(* the renderings.                                                         *)
(***************************************************************************)
LiftNames == {txt_Lookout, txt_Bear, txt_blank}
LiftIcons == {src_open, src_hold, src_png, <<>>}
Lifts == [name : LiftNames, icon : LiftIcons]

\* the lists of at most n lifts
RECURSIVE LiftLists(_)
LiftLists(n) ==
  IF n = 0 THEN {<<>>}
  ELSE LET shorter == LiftLists(n - 1)
       IN shorter \cup {Append(ls, l) : ls \in {s \in shorter : Len(s) = n - 1}, l \in Lifts}

\* allText of an element whose text has white space around it
Padded(text) == <<" ">> \o text \o <<"\n", " ">>

OldDoc(ls) == [k \in 1..Len(ls) |-> OldRow(ls[k].name, ls[k].icon)]
NewDoc(ls, pad) ==
  [k \in 1..Len(ls) |->
     NewRow(IF pad THEN Padded(ls[k].name) ELSE ls[k].name, ls[k].icon)]

InitExtract ==
  /\ lifts \in LiftLists(MaxRows)
  /\ extracted = NotExtracted
  /\ variant = "promise"
  /\ now = StartTime
  /\ lastFetchTime = 0
  /\ lastRequestTime = 0
  /\ cachedStatus = EmptyMap
  /\ nextFetchInterval = getRandomInterval(FALSE, 0)
  /\ inflight = EmptyBag
  /\ last = Step("init", "none", "none", <<>>, <<>>, FALSE)
  /\ lastFresh = EmptyMap

\* parseLifts on both renderings, the rule-based extraction on the old one
Extract(pad) ==
  /\ ~extracted.done
  /\ extracted' = [done |-> TRUE,
                   old |-> parseLiftsRows(OldDoc(lifts)),
                   new |-> parseLiftsRows(NewDoc(lifts, pad)),
                   rule |-> collectRows(OldDoc(lifts))]
  /\ UNCHANGED <<variant, now, lastFetchTime, lastRequestTime, cachedStatus,
                 nextFetchInterval, inflight, last, lastFresh, lifts>>

NextExtract == \E pad \in BOOLEAN : Extract(pad)

SpecExtract == InitExtract /\ [][NextExtract]_vars

\* the values cachedStatus takes, and the records of the retrievals in flight
CacheValues ==
  {EmptyMap} \cup {parseLifts(p) : p \in LivePages} \cup {collect(p) : p \in LivePages}

Attempts == [startCache : CacheValues, gapActive : BOOLEAN]

\* the retrieval a settles, in one of the ways it can, and its handlers run
Completion(a) ==
  \/ \E o \in PuppeteerSettlements :
       \E fnThrows \in FnThrowsRead(o) :
         \E r1 \in Draw1Read(o, fnThrows), r2 \in Draw2Read(o, fnThrows) :
           Complete(a, o, fnThrows, r1, r2)
  \/ \E o \in FetchSettlements :
       \E fnThrows \in FnThrowsRead(o) :
         \E r1 \in Draw1Read(o, fnThrows), r2 \in Draw2Read(o, fnThrows) :
           CompleteChromeUA(a, o, fnThrows, r1, r2)

\* a retrieval that is in flight completes
Completing(a) ==
  /\ a \in BagToSet(inflight)
  /\ inflight' = inflight (-) SetToBag({a})
  /\ Completion(a)

\* the clock of the fair specification: one later reading, 08:05
ClockFair == {StartTime + 35 * 60000}

\* the steps of the fair specification: the steps of Next, with one later
\* reading of the clock and with the documents DocNone and DocOld
NextFair ==
  \/ \E t \in ClockFair : Tick(t)
  \/ \E dom \in {DocNone, DocOld}, fn \in BOOLEAN : parse(dom, fn)
  \/ \E a \in BagToSet(inflight) : Completion(a)

(***************************************************************************)
(* Each awaited call of a retrieval returns, throws or times out (goto:    *)
(* 60 s, waitForSelector: 30 s), and the event loop runs the handlers of a *)
(* settled promise: a retrieval in flight eventually completes.            *)
(***************************************************************************)
FairSpec == Init /\ [][NextFair]_vars /\ \A a \in Attempts : WF_vars(Completing(a))

(***************************************************************************)
(* Properties.                                                             *)
(***************************************************************************)
\* the step just taken completed the retrieval a
Completed(a) ==
  /\ last'.op = "complete"
  /\ inflight' = inflight (-) SetToBag({a})

\* the completion paths on which no fresh extraction was delivered
FailurePaths == {"nodata", "exception"}

\* every value the step delivered is v, and it delivered one
DeliveredOnly(step, v) ==
  /\ step.out # <<>>
  /\ \A i \in DOMAIN step.out : step.out[i] = v

\* C1, as stated: a retrieval that fails delivers the value cachedStatus had
\* immediately before that retrieval was started.
C1_DeliversCacheOfStart ==
  [][\A a \in BagToSet(inflight) :
       (Completed(a) /\ last'.path \in FailurePaths)
         => DeliveredOnly(last', a.startCache)]_vars

\* C1, amended: a retrieval that fails delivers the value cachedStatus holds
\* when the retrieval completes, and leaves cachedStatus as it is.
C1_DeliversCacheOfCompletion ==
  [][(last'.op = "complete" /\ last'.path \in FailurePaths)
       => (DeliveredOnly(last', cachedStatus) /\ cachedStatus' = cachedStatus)]_vars

\* a retrieval returned no markup and a non-empty cache was delivered
C1_Witness ==
  /\ variant = "promise"
  /\ last.op = "complete"
  /\ last.path = "nodata"
  /\ cachedStatus # EmptyMap
  /\ last.out = <<cachedStatus>>

\* the maps the documents with rows stand for
LookoutBear == (txt_Lookout :> st_open) @@ (txt_Bear :> st_hold)

\* the map of each document with rows, as parseLifts of index.js gives it:
\* name and status are found by class in the old and in the new markup
RowsResult(dom) ==
  IF dom \in {DocOld, DocNew} THEN LookoutBear ELSE EmptyMap

\* the result of a step is the map of the document (index.js, whose
\* extraction is in the sources)
ReturnsMapOf(dom) ==
  /\ Len(last'.out) = 1
  /\ variant = "promise" => last'.out[1] = RowsResult(dom)

\* no retrieval is started, and the fetch state other than lastRequestTime
\* is left alone
FetchStateKept ==
  /\ inflight' = inflight
  /\ lastFetchTime' = lastFetchTime
  /\ nextFetchInterval' = nextFetchInterval
  /\ cachedStatus' = cachedStatus

\* C2, as stated: parse() on a document with rows starts no retrieval, leaves
\* lastFetchTime, nextFetchInterval and lastRequestTime alone, and returns a
\* map that depends on the document only.
C2_RowsPathTouchesNothing ==
  [][\A dom \in ProvidedDocs, fn \in BOOLEAN :
       (Len(dom) > 0 /\ parse(dom, fn))
         => /\ FetchStateKept
            /\ lastRequestTime' = lastRequestTime
            /\ ReturnsMapOf(dom)]_vars

\* C2, amended: parse() on a document with rows starts no retrieval, leaves
\* lastFetchTime, nextFetchInterval and cachedStatus alone, returns a map that
\* depends on the document only, and records the time of the query in
\* lastRequestTime (the revision of part_000 has no lastRequestTime).
C2_RowsPath ==
  [][\A dom \in ProvidedDocs, fn \in BOOLEAN :
       (Len(dom) > 0 /\ parse(dom, fn))
         => /\ FetchStateKept
            /\ lastRequestTime' = IF variant = "chromeUA" THEN lastRequestTime ELSE now
            /\ last'.path = "rows"
            /\ ReturnsMapOf(dom)]_vars

\* a document with rows was parsed while a retrieval was in flight, after a
\* completed attempt that filled the cache with another map
C2_Witness ==
  /\ variant = "promise"
  /\ last.op = "parse"
  /\ last.path = "rows"
  /\ last.out = <<LookoutBear>>
  /\ cachedStatus \notin {EmptyMap, LookoutBear}
  /\ lastFetchTime # 0
  /\ lastRequestTime = now
  /\ inflight # EmptyBag

\* a parse() step that starts no retrieval
StartsNothing ==
  last'.op = "parse" => (last'.path # "started" /\ inflight' = inflight)

\* C3: while now - lastFetchTime < nextFetchInterval after a recorded attempt,
\* shouldFetch() is false and no query starts a retrieval, whatever the hours
\* and the caller activity are.
C3_Backoff ==
  [][(lastFetchTime # 0 /\ now - lastFetchTime < nextFetchInterval)
       => (~shouldFetch /\ StartsNothing)]_vars

\* a query was rejected by the backoff window alone: within operating hours
C3_Witness ==
  /\ variant = "promise"
  /\ last.op = "parse"
  /\ last.path = "rejected"
  /\ lastFetchTime # 0
  /\ now - lastFetchTime < nextFetchInterval
  /\ nyMinutes(now) >= OPEN_HOUR_x60
  /\ nyMinutes(now) < CLOSE_HOUR_x60

\* C4: while lastFetchTime is 0, shouldFetch() is true, and a query without
\* rows starts a retrieval (index.js; the callback revisions when a callback
\* is passed), whatever the hours, nextFetchInterval and the activity are.
C4_FirstFetch ==
  [][lastFetchTime = 0
       => /\ shouldFetch
          /\ \A fn \in BOOLEAN :
               (parse(DocNone, fn) /\ (variant = "promise" \/ fn))
                 => /\ last'.path = "started"
                    /\ BagCardinality(inflight') = BagCardinality(inflight) + 1]_vars

\* the first retrieval was started at 07:30, before the opening hour
C4_Witness ==
  /\ variant = "promise"
  /\ last.op = "parse"
  /\ last.path = "started"
  /\ lastFetchTime = 0
  /\ nyMinutes(now) < OPEN_HOUR_x60
  /\ inflight # EmptyBag

\* the local time at the source is before the opening or at/after the closing
OutsideHours ==
  IF variant = "chromeUA"
    THEN nyMinutes(now) < OPEN_HOUR_UA * 60 \/ nyMinutes(now) >= CLOSE_HOUR_UA * 60
    ELSE nyMinutes(now) < OPEN_HOUR_x60 \/ nyMinutes(now) >= CLOSE_HOUR_x60

\* C5: after a recorded attempt whose backoff window has elapsed, outside the
\* operating hours shouldFetch() is false and no query starts a retrieval.
C5_OperatingHours ==
  [][(lastFetchTime # 0 /\ now - lastFetchTime >= nextFetchInterval /\ OutsideHours)
       => (~shouldFetch /\ StartsNothing)]_vars

\* a query was rejected at 17:30, with the backoff window elapsed
C5_Witness ==
  /\ variant = "promise"
  /\ last.op = "parse"
  /\ last.path = "rejected"
  /\ lastFetchTime # 0
  /\ now - lastFetchTime >= nextFetchInterval
  /\ nyMinutes(now) >= CLOSE_HOUR_x60

\* the bounds of a tier
InTier(active, i) ==
  IF active THEN ACTIVE_MIN_INTERVAL <= i /\ i <= ACTIVE_MAX_INTERVAL
  ELSE INACTIVE_MIN_INTERVAL <= i /\ i <= INACTIVE_MAX_INTERVAL

\* C6: nextFetchInterval always lies in one of the two ranges, and every
\* completed attempt leaves it in the range of the tier evaluated at that
\* completion (part_000 has the one range of 5 to 15 minutes).
C6_Redrawn ==
  /\ [](InTier(TRUE, nextFetchInterval) \/ InTier(FALSE, nextFetchInterval))
  /\ [][last'.op = "complete"
          => InTier(variant = "chromeUA" \/ now - lastRequestTime < ACTIVITY_THRESHOLD,
                    nextFetchInterval')]_vars

\* an attempt ended in an exception while the caller was active, and the
\* interval is in the tight range
C6_Witness ==
  /\ variant = "promise"
  /\ last.op = "complete"
  /\ last.path = "exception"
  /\ now - lastRequestTime < ACTIVITY_THRESHOLD
  /\ InTier(TRUE, nextFetchInterval)

\* C7, as stated: the tier of the draw after an attempt is given by the gap
\* between the query that started the attempt and the query before it.
C7_TierByQueryGap ==
  [][\A a \in BagToSet(inflight) :
       (variant # "chromeUA" /\ Completed(a))
         => InTier(a.gapActive, nextFetchInterval')]_vars

\* C8: cachedStatus changes only in the completion of a retrieval that gave
\* markup whose extraction ran, and then to the extracted map; every other
\* step leaves it unchanged.
C8_CacheAssignedOnFresh ==
  [][cachedStatus' # cachedStatus
       => /\ last'.op = "complete"
          /\ last'.path = "fresh"
          /\ cachedStatus' = last'.out[1]]_vars

\* a fresh completion replaced a non-empty cache by another map
C8_Witness ==
  /\ last.op = "complete"
  /\ last.path = "fresh"
  /\ last.out # <<>>
  /\ cachedStatus = last.out[1]
  /\ cachedStatus = (txt_Lookout :> st_closed)

\* C9, as stated, for index.js: a non-empty cachedStatus is never replaced by
\* the empty map.
C9_NeverCleared ==
  [][(variant = "promise" /\ cachedStatus # EmptyMap) => cachedStatus' # EmptyMap]_vars

\* C10: no step throws to its caller, no promise is rejected, and every error
\* slot passed to the callback is null.
C10_NoErrorReachesCaller ==
  /\ ~last.thrown
  /\ last.how # "reject"
  /\ \A i \in DOMAIN last.errs : last.errs[i] = "null"

\* an exception in the retrieval or in the first handler ended in a resolved
\* promise carrying the cache
C10_Witness ==
  /\ variant = "promise"
  /\ last.op = "complete"
  /\ last.path = "exception"
  /\ last.how = "resolve"
  /\ last.out = <<cachedStatus>>

\* C11: a query rejected by shouldFetch() gets cachedStatus at once, by return
\* or by the callback; the value is the map of the most recent successful
\* retrieval (the empty map before the first); no retrieval is started, and
\* lastFetchTime, nextFetchInterval and cachedStatus are left unchanged.
C11_RejectedServesCache ==
  [][\A fn \in BOOLEAN :
       (parse(DocNone, fn) /\ ~shouldFetch /\ (variant = "promise" \/ fn))
         => /\ last'.path = "rejected"
            /\ last'.how = IF fn THEN "callback" ELSE "return"
            /\ last'.out = <<cachedStatus>>
            /\ last'.out = <<lastFresh>>
            /\ ~last'.thrown
            /\ FetchStateKept]_vars

\* a query was rejected and got the non-empty map of the latest retrieval
C11_Witness ==
  /\ variant = "promise"
  /\ last.op = "parse"
  /\ last.path = "rejected"
  /\ last.out = <<lastFresh>>
  /\ lastFresh # EmptyMap

\* C12, as stated, for index.js: when the extraction from the provided
\* document gives no entry, parse() either starts a retrieval or returns the
\* cache; it never returns the empty map of the document while the cache is
\* not empty.
C12_EmptyExtractionGoesToScheduler ==
  [][\A dom \in ProvidedDocs :
       (variant = "promise" /\ parse(dom, FALSE) /\ parseLifts(dom) = EmptyMap)
         => /\ last'.path \in {"started", "rejected"}
            /\ cachedStatus # EmptyMap => last'.out # <<EmptyMap>>]_vars

C14_NoSingleFlight ==
  [][\A fn \in BOOLEAN :
       (/\ parse(DocNone, fn)
        /\ variant = "promise" \/ fn
        /\ \/ lastFetchTime = 0
           \/ now - lastFetchTime >= nextFetchInterval /\ ~OutsideHours)
         => /\ last'.path = "started"
            /\ BagCardinality(inflight') = BagCardinality(inflight) + 1]_vars

\* two retrievals are in flight, the second just started, both started after
\* a completed attempt had filled the cache, with the backoff window elapsed
C14_Witness ==
  /\ variant = "promise"
  /\ last.op = "parse"
  /\ last.path = "started"
  /\ BagCardinality(inflight) = 2
  /\ \A a \in BagToSet(inflight) : a.startCache # EmptyMap
  /\ lastFetchTime # 0
  /\ now - lastFetchTime >= nextFetchInterval

\* C15: under FairSpec every retrieval in flight is eventually completed (no
\* retrieval stays in flight for ever without a completion of its kind);
\* each completion resolves the promise (calls the callback) with the fresh
\* map or the cached map, which is the value of cachedStatus after it; and
\* while retrievals are in flight a query with rows can be served.
C15_EventuallyAnswered ==
  /\ \A a \in Attempts :
       \/ []<>(a \notin BagToSet(inflight))
       \/ []<><<Completed(a)>>_vars
  /\ [][last'.op = "complete"
          => /\ last'.how \in {"resolve", "callback"}
             /\ last'.path \in {"fresh", "nodata", "exception"}
             /\ DeliveredOnly(last', cachedStatus')]_vars
  /\ [](inflight # EmptyBag => ENABLED parse(DocOld, variant # "promise"))

\* a retrieval was answered with the fresh map while another is in flight
C15_Witness ==
  /\ variant = "promise"
  /\ last.op = "complete"
  /\ last.how = "resolve"
  /\ last.path = "fresh"
  /\ last.out = <<cachedStatus>>
  /\ inflight # EmptyBag

\* a lift whose row yields an entry: it has a name, and the src of its image
\* has the form icon-<code>.svg
WellFormed(l) == l.name \in {txt_Lookout, txt_Bear} /\ l.icon \in {src_open, src_hold}

\* the code in the src of a well-formed lift
CodeOf(l) == IF l.icon = src_open THEN st_open ELSE st_hold

\* the map of a list of lifts: each name of a well-formed lift, with the code
\* of the last well-formed lift of that name
MapOf(ls) ==
  LET good == {k \in 1..Len(ls) : WellFormed(ls[k])}
  IN [n \in {ls[k].name : k \in good} |->
        CodeOf(ls[CHOOSE k \in good :
                    /\ ls[k].name = n
                    /\ \A j \in good : ls[j].name = n => j <= k])]

\* C16: for every document, in either markup, parseLifts() omits each row
\* without a name, without an image src or with a src that does not match,
\* and maps the name of every other row to the code in its src.
C16_PartialRowTolerance ==
  extracted.done => (extracted.old = MapOf(lifts) /\ extracted.new = MapOf(lifts))

\* a row with a src that does not match came before a well-formed row, and
\* the well-formed row alone is in the map
C16_Witness ==
  /\ extracted.done
  /\ lifts = <<[name |-> txt_Lookout, icon |-> src_png],
               [name |-> txt_Bear, icon |-> src_hold]>>
  /\ extracted.old = (txt_Bear :> st_hold)
  /\ extracted.new = (txt_Bear :> st_hold)

\* C17: for every list of well-formed lifts, parseLifts() gives the same map
\* on the rendering in the old markup and on the rendering in the new markup
\* (with or without white space around the names), and the rule-based
\* extraction gives that map on the old markup.
C17_ShapeTolerance ==
  (extracted.done /\ \A k \in 1..Len(lifts) : WellFormed(lifts[k]))
    => /\ extracted.old = extracted.new
       /\ extracted.rule = extracted.old

\* two lifts were extracted three ways, to the same map of two entries
C17_Witness ==
  /\ extracted.done
  /\ lifts = <<[name |-> txt_Lookout, icon |-> src_open],
               [name |-> txt_Bear, icon |-> src_hold]>>
  /\ extracted.rule = LookoutBear
  /\ extracted.new = LookoutBear

\* C18: every completion, on each of its paths, leaves lastFetchTime at the
\* time of the completion; once set, lastFetchTime is never 0 again, and
\* shouldFetch() is then true only when the backoff window has elapsed.
C18_AttemptRecorded ==
  /\ [][last'.op = "complete"
          => /\ last'.path \in {"fresh", "nodata", "exception"}
             /\ lastFetchTime' = now
             /\ lastFetchTime' # 0]_vars
  /\ [][lastFetchTime # 0 => lastFetchTime' # 0]_vars
  /\ [](lastFetchTime # 0 /\ shouldFetch => now - lastFetchTime >= nextFetchInterval)

\* a retrieval that ended in an exception was recorded at 07:34
C18_Witness ==
  /\ variant = "promise"
  /\ last.op = "complete"
  /\ last.path = "exception"
  /\ now = StartTime + 4 * 60000
  /\ lastFetchTime = now

\* C19, for index.js and part_001: every call of parse(), on each of its
\* paths, sets lastRequestTime to the current time, and no other step writes
\* it, so lastRequestTime is the time of the most recent query.
C19_RequestRecorded ==
  /\ [][\A dom \in ProvidedDocs, fn \in BOOLEAN :
          (variant # "chromeUA" /\ parse(dom, fn)) => lastRequestTime' = now]_vars
  /\ [][lastRequestTime' # lastRequestTime => last'.op = "parse"]_vars
  /\ []((variant # "chromeUA" /\ last.op = "parse") => lastRequestTime = now)

\* a query rejected at 08:05 was recorded
C19_Witness ==
  /\ variant = "callback"
  /\ last.op = "parse"
  /\ last.path = "rejected"
  /\ now = StartTime + 35 * 60000
  /\ lastRequestTime = now

\* C20: cachedStatus is the empty map until a retrieval succeeds, and then
\* exactly the map the most recently completed successful retrieval
\* delivered: one of the maps a whole page extracts to, never a merge.
C20_CacheIsLatestMap ==
  /\ cachedStatus = lastFresh
  /\ cachedStatus \in CacheValues

\* a retrieval that overlapped another one, started when the cache held two
\* lifts, is in flight; the latest completion left a map without Bear
C20_Witness ==
  /\ last.op = "complete"
  /\ last.path = "fresh"
  /\ cachedStatus = (txt_Lookout :> st_closed)
  /\ \E a \in BagToSet(inflight) : a.startCache = LookoutBear

\* C21, as stated, for the callback revisions: a step of parse(dom, fn) or of
\* a completion that hands its result to fn invokes fn exactly once, also
\* when fn throws while the success handler is invoking it.
C21_FnInvokedOnce ==
  (variant # "promise" /\ last.how = "callback") => Len(last.out) = 1

=============================================================================
